---- MODULE Spec2Model ----
(***************************************************************************)
(* Session orchestration and durable event pipeline of chatery_whatsapp:   *)
(*   - the message store with its unread-counter triggers                  *)
(*     (src/src/stores/DatabaseStore.js),                                  *)
(*   - the session supervisor (src/unnamed/part_001, second variant of     *)
(*     WhatsAppSession.js, lines 1612-1959),                               *)
(*   - the webhook dispatcher (src/src/services/whatsapp/WebhookManager.js)*)
(*   - the bulk job manager (src/unnamed/part_002, routes/whatsapp.js).    *)
(* Each component has its own specification (SpecStore, SpecSession,       *)
(* SpecWebhook, SpecBulk) over the variables of the whole module; the      *)
(* variables of the other components stay at their initial values.         *)
(***************************************************************************)
EXTENDS Integers, Sequences, FiniteSets, TLC

VARIABLES
  \* ---- Event Store (DatabaseStore.js) ----
  messages,          \* table messages: (chat_id, message_id) -> row
  chats_overview,    \* table chats_overview: chat_id -> row
  chats,             \* table chats: the chat ids that have a row
  \* ---- Session Supervisor (WhatsAppSession.js) ----
  connectionStatus,  \* this.connectionStatus
  socket,            \* this.socket: 0 = null, a client id, or DeadRef
  reconnectAttempts, \* this.reconnectAttempts
  reconnectTimers,   \* pending setTimeout(() => this.connect(), delay)
  clients,           \* Protocol Clients made by makeWASocket: id -> lifecycle
  connectCalls,      \* connect() calls suspended at their awaits
  logoutPc,          \* position of the logout() call in progress
  closeRun,          \* history: recoverable closes in a row since the last open
  loggedOut,         \* history: logout() has completed, no connect() called since
  authFolder,        \* sessions/<id> exists
  mediaFolder,       \* public/media/<id> exists
  sessionRows,       \* the Event Store holds rows of this session
  \* ---- Webhook Dispatcher (WebhookManager.js) ----
  webhooks,          \* WebhookManager this.webhooks: the list send() delivers to
  sessionWebhooks,   \* session.webhooks: what _saveConfig and getInfo read
  sameArray,         \* this.webhooks and session.webhooks are one array object
  sharedHooks,       \* urls whose hook object is in both arrays
  configFile,        \* webhooks of sessions/<id>/config.json
  lastInfo,          \* webhooks of the snapshot the last add/remove returned
  deliveries,        \* the per-hook deliveries of the send() in progress
  sendState,         \* idle, running, resolved or rejected
  \* ---- Bulk Job Manager (routes/whatsapp.js) ----
  bulkJobs,          \* keys of the Map bulkJobs, in insertion order
  jobs,              \* the job objects ever created: jobId -> job
  workers,           \* the background workers still running: jobId -> i, delayMs, position
  invoked,           \* history: jobId -> how often sendMessage was called per recipient
  outcomes,          \* history: jobId -> which sends succeeded and which did not, in order
  \* ---- Initial resync (WhatsAppSession.js, first variant) ----
  initialSyncDone,   \* this._initialSyncDone
  syncTimers,        \* pending deferred-sync timers (setTimeout 1500)
  logoutCalls,       \* logout() calls of the first variant suspended at their awaits
  inLifetime,        \* history: a "connection open" was handled, no close since
  syncRuns,          \* history: resyncs started in the current connected lifetime
  syncSignals,       \* history: open / pending / timer signals handled in it
  \* ---- Group participants (DatabaseStore.js) ----
  groupRow,          \* group_metadata has the row of the group
  participants,      \* its participants column, parsed: a list of entries
  \* ---- Contacts (DatabaseStore.js) ----
  contacts,          \* table contacts: id -> row
  contact_changes,   \* number of rows of table contact_changes
  lastContact,       \* history: the contact of the last contacts event handled
  \* ---- Blocklist (DatabaseStore.js) ----
  device_blocklist,  \* table device_blocklist: no row, or one row holding the list
  lastBlocklist,     \* history: the last blocklist event handled
  \* ---- Message Manager (MessageManager.js) ----
  messageSocket,     \* MessageManager this.socket: 0 is null, else a client
  sendPc,            \* where the send operation under way is suspended, or idle
  lastSend,          \* history: the last send operation called
  \* ---- Database access layer (DatabaseStore.js) ----
  ops,               \* the mysqlQuery / mysqlTransaction calls: slot -> call
  inUse,             \* connections of mysqlPool that are checked out
  \* ---- Event pipeline (DatabaseStore.js bind, WhatsAppSession.js) ----
  processAlive,      \* the Node.js process of the supervisor is running
  rejections,        \* rejected listener promises that nothing has handled yet
  handledEvents      \* history: event -> how many emits reached all its listeners

storeVars == <<messages, chats_overview, chats>>

sessVars == <<connectionStatus, socket, reconnectAttempts, reconnectTimers, clients,
              connectCalls, logoutPc, closeRun, loggedOut, authFolder, mediaFolder,
              sessionRows>>

hookVars == <<webhooks, sessionWebhooks, sameArray, sharedHooks, configFile, lastInfo,
              deliveries, sendState>>

bulkVars == <<bulkJobs, jobs, workers, invoked, outcomes>>

syncVars == <<initialSyncDone, syncTimers, logoutCalls, inLifetime, syncRuns, syncSignals>>

groupVars == <<groupRow, participants>>

contactVars == <<contacts, contact_changes, lastContact>>

blockVars == <<device_blocklist, lastBlocklist>>

managerVars == <<messageSocket, sendPc, lastSend>>

dbVars == <<ops, inUse>>

pipeVars == <<processAlive, rejections, handledEvents>>

vars == <<storeVars, sessVars, hookVars, bulkVars, syncVars, groupVars, contactVars, blockVars,
          managerVars, dbVars, pipeVars>>

\* what the actions of one component leave alone
notStore == <<sessVars, hookVars, bulkVars, syncVars, groupVars, contactVars, blockVars,
            managerVars, dbVars, pipeVars>>
notSess == <<storeVars, hookVars, bulkVars, syncVars, groupVars, contactVars, blockVars,
            managerVars, dbVars, pipeVars>>
notHook == <<storeVars, sessVars, bulkVars, syncVars, groupVars, contactVars, blockVars,
            managerVars, dbVars, pipeVars>>
notBulk == <<storeVars, sessVars, hookVars, syncVars, groupVars, contactVars, blockVars,
            managerVars, dbVars, pipeVars>>
notGroup == <<storeVars, sessVars, hookVars, bulkVars, syncVars, contactVars, blockVars,
              managerVars, dbVars, pipeVars>>
notContact == <<storeVars, sessVars, hookVars, bulkVars, syncVars, groupVars, blockVars,
                managerVars, dbVars, pipeVars>>
notBlock == <<storeVars, sessVars, hookVars, bulkVars, syncVars, groupVars, contactVars,
              managerVars, dbVars, pipeVars>>
\* a send operation works on the session, on the dispatcher and on itself
notManager == <<storeVars, bulkVars, syncVars, groupVars, contactVars, blockVars, dbVars, pipeVars>>
notDb == <<storeVars, sessVars, hookVars, bulkVars, syncVars, groupVars, contactVars, blockVars,
          managerVars, pipeVars>>
notPipe == <<storeVars, sessVars, hookVars, bulkVars, syncVars, groupVars, contactVars, blockVars,
            managerVars, dbVars>>
\* the first-variant listener works on connectionStatus, socket and
\* reconnectTimers of the session and on the resync variables
notSync == <<storeVars, hookVars, bulkVars, groupVars, contactVars, blockVars, managerVars,
             dbVars, pipeVars,
             reconnectAttempts, clients, connectCalls,
             logoutPc, closeRun, loggedOut, authFolder, mediaFolder, sessionRows>>

(***************************************************************************)
(*                              EVENT STORE                                *)
(***************************************************************************)

Chats == {"C1", "C2"}
MsgIds == {"M1", "M2"}
Statuses == {"sent", "delivered", "read", "played"}
Undefined == "undefined"

\* primary keys (session_id, chat_id, message_id) of one session: chat C1 with
\* two message ids, chat C2 with one
MessageKeys == {<<"C1", "M1">>, <<"C1", "M2">>, <<"C2", "M1">>}

\* a protocol message as far as _upsertMessage reads it
MsgInputs ==
  {m \in [remoteJid : Chats, id : MsgIds, fromMe : BOOLEAN,
          status : Statuses \cup {Undefined}] :
     <<m.remoteJid, m.id>> \in MessageKeys}

\* a messages.update entry as far as _updateMessage reads it
UpdateInputs ==
  {u \in [remoteJid : Chats, id : MsgIds, status : Statuses \cup {Undefined}] :
     <<u.remoteJid, u.id>> \in MessageKeys}

UpsertTypes == {"notify", "append", "prepend"}

Max(a, b) == IF a >= b THEN a ELSE b

\* AFTER INSERT ON messages: insert-or-increment of the chat-overview row
tr_messages_after_insert_unread(ov, chat, id, new) ==
  IF ~new.from_me /\ new.status # "read"
  THEN IF chat \in DOMAIN ov
       THEN [ov EXCEPT ![chat] =
               [unread_count |-> @.unread_count + 1, last_message_id |-> id]]
       ELSE ov @@ (chat :> [unread_count |-> 1, last_message_id |-> id])
  ELSE ov

\* the decrement only on delivered -> read
tr_messages_after_update_read_fromDelivered(ov, chat, old, new) ==
  IF ~old.from_me /\ old.status = "delivered" /\ new.status = "read"
  THEN IF chat \in DOMAIN ov
       THEN [ov EXCEPT ![chat].unread_count = Max(@ - 1, 0)]
       ELSE ov
  ELSE ov

\* AFTER UPDATE ON messages: decrement, floored at zero, on non-read -> read
tr_messages_after_update_read(ov, chat, old, new) ==
  IF ~old.from_me /\ old.status # "read" /\ new.status = "read"
  THEN IF chat \in DOMAIN ov
       THEN [ov EXCEPT ![chat].unread_count = Max(@ - 1, 0)]
       ELSE ov
  ELSE ov

\* REPLACE-style upsert: a redelivered row is inserted again, so the insert
\* trigger fires on every delivery
upsertMessage_reinsert(store, msg) ==
  LET key == <<msg.remoteJid, msg.id>>
      status == IF msg.status = Undefined THEN "sent" ELSE msg.status
      new == [from_me |-> msg.fromMe, status |-> status]
  IN  [messages |-> [k \in (DOMAIN store.messages) \cup {key} |->
                       IF k = key THEN new ELSE store.messages[k]],
       chats_overview |->
         tr_messages_after_insert_unread(store.chats_overview, key[1], key[2], new)]

\* INSERT INTO messages ... ON DUPLICATE KEY UPDATE ..., status=VALUES(status), ...
\* with the trigger of the path taken (insert or update) in the same statement
upsertMessage(store, msg) ==
  LET key == <<msg.remoteJid, msg.id>>
      status == IF msg.status = Undefined THEN "sent" ELSE msg.status
  IN  IF key \in DOMAIN store.messages
      THEN LET old == store.messages[key]
               new == [old EXCEPT !.status = status]
           IN  [messages |-> [store.messages EXCEPT ![key] = new],
                chats_overview |->
                  tr_messages_after_update_read(store.chats_overview, key[1], old, new)]
      ELSE LET new == [from_me |-> msg.fromMe, status |-> status]
           IN  [messages |-> store.messages @@ (key :> new),
                chats_overview |->
                  tr_messages_after_insert_unread(store.chats_overview, key[1], key[2], new)]

\* UPDATE messages SET status = ? WHERE (session, chat, message) = key
updateMessage(store, upd) ==
  LET key == <<upd.remoteJid, upd.id>>
  IN  IF upd.status = Undefined \/ key \notin DOMAIN store.messages
      THEN store
      ELSE LET old == store.messages[key]
               new == [old EXCEPT !.status = upd.status]
           IN  [messages |-> [store.messages EXCEPT ![key] = new],
                chats_overview |->
                  tr_messages_after_update_read(store.chats_overview, key[1], old, new)]

Store == [messages |-> messages, chats_overview |-> chats_overview]

\* the listener of "messages.upsert" for one message of the batch: only the
\* delivery types notify and append are stored
messages_upsert(store, type, msg) ==
  IF type = "notify" \/ type = "append" THEN upsertMessage(store, msg) ELSE store

\* ev.on("messages.upsert"): dbOk = FALSE is a failed statement, which
\* _upsertMessage logs and swallows
MessagesUpsert ==
  \E type \in UpsertTypes, msg \in MsgInputs, dbOk \in BOOLEAN :
    LET after == IF dbOk THEN messages_upsert(Store, type, msg) ELSE Store
    IN  /\ messages' = after.messages
        /\ chats_overview' = after.chats_overview
        /\ UNCHANGED <<chats, notStore>>

\* ev.on("messages.update"): one entry of the batch
MessagesUpdate ==
  \E upd \in UpdateInputs, dbOk \in BOOLEAN :
    LET after == IF dbOk THEN updateMessage(Store, upd) ELSE Store
    IN  /\ messages' = after.messages
        /\ chats_overview' = after.chats_overview
        /\ UNCHANGED <<chats, notStore>>

InitStore ==
  /\ messages = << >>
  /\ chats_overview = << >>
  /\ chats = {}

NextStore == MessagesUpsert \/ MessagesUpdate

\* chat.unreadCount of a chats.upsert entry
UnreadInputs == {0, 1}

\* INSERT INTO chats_overview (..., unread_count) ... ON DUPLICATE KEY UPDATE
\* unread_count = VALUES(unread_count)
upsertChatOverview(ov, chat, unread) ==
  IF chat \in DOMAIN ov
  THEN [ov EXCEPT ![chat].unread_count = unread]
  ELSE ov @@ (chat :> [unread_count |-> unread, last_message_id |-> Undefined])

\* ev.on("chats.upsert") for one chat: _bulkUpsertChats, then
\* _upsertChatOverview with the unread count of the event; each swallows the
\* failure of its statement
ChatsUpsert ==
  \E chat \in Chats, unread \in UnreadInputs, chatOk \in BOOLEAN, ovOk \in BOOLEAN :
    /\ chats' = IF chatOk THEN chats \cup {chat} ELSE chats
    /\ chats_overview' = IF ovOk THEN upsertChatOverview(chats_overview, chat, unread)
                                 ELSE chats_overview
    /\ UNCHANGED <<messages, notStore>>

\* what one mysqlQuery with the three DELETE statements of chats.delete can
\* do: the statements run in order, each committing on its own (no
\* transaction is opened), and the call ends after 0, 1, 2 or all 3 of them:
\* 0 is the whole text rejected or no connection, 3 is success
DeleteProgress == 0..3

\* DELETE FROM chats ...; DELETE FROM chats_overview ...; DELETE FROM messages ...
chatsDelete(store, chat, done) ==
  [chats |-> IF done >= 1 THEN store.chats \ {chat} ELSE store.chats,
   chats_overview |-> IF done >= 2
                      THEN [c \in (DOMAIN store.chats_overview) \ {chat} |->
                              store.chats_overview[c]]
                      ELSE store.chats_overview,
   messages |-> IF done >= 3
                THEN [k \in {x \in DOMAIN store.messages : x[1] # chat} |->
                        store.messages[k]]
                ELSE store.messages]

\* ev.on("chats.delete") for one chat id
ChatsDelete ==
  \E chat \in Chats, done \in DeleteProgress :
    LET after == chatsDelete([chats |-> chats, chats_overview |-> chats_overview,
                              messages |-> messages], chat, done)
    IN  /\ chats' = after.chats
        /\ chats_overview' = after.chats_overview
        /\ messages' = after.messages
        /\ UNCHANGED notStore

\* ev.on("messages.upsert") for the messages of the other party that carry
\* no delivery status yet
InboundStored ==
  /\ MessagesUpsert
  /\ \A k \in DOMAIN messages' : ~messages'[k].from_me /\ messages'[k].status = "sent"

\* the chat tables next to the message table
NextChats == InboundStored \/ ChatsUpsert \/ ChatsDelete

(***************************************************************************)
(*                           SESSION SUPERVISOR                            *)
(***************************************************************************)

maxReconnectAttempts == 8

\* bounds of the model
MaxClients == 2          \* Protocol Clients alive at the same time
MaxTimers == 1           \* reconnect timers pending at the same time
MaxConnectCalls == 1     \* connect() calls suspended at the same time

ClientIds == 1..MaxClients
DeadRef == -1            \* this.socket still refers to a client that has closed
LiveClients == {c \in ClientIds : clients[c] # "free"}
CloseCauses == {"recoverable", "loggedOut"}

Min(a, b) == IF a <= b THEN a ELSE b

\* the body of connect() up to its first await; byUser tells a call of the API
\* from the call of a reconnect timer (the code does not)
connect(byUser) ==
  IF connectionStatus = "connected" /\ socket # 0
  THEN UNCHANGED <<connectionStatus, connectCalls, loggedOut, closeRun, authFolder>>
  ELSE IF connectionStatus = "connecting"
  THEN UNCHANGED <<connectionStatus, connectCalls, loggedOut, closeRun, authFolder>>
  ELSE /\ connectCalls < MaxConnectCalls
       /\ connectionStatus' = "connecting"
       /\ authFolder' = TRUE
       /\ connectCalls' = connectCalls + 1
       /\ loggedOut' = IF byUser THEN FALSE ELSE loggedOut
       /\ closeRun' = IF byUser THEN 0 ELSE closeRun

\* POST /sessions/connect -> session.connect()
Connect ==
  /\ UNCHANGED notSess
  /\ connect(TRUE)
  /\ UNCHANGED <<socket, reconnectAttempts, reconnectTimers, clients, logoutPc,
                 mediaFolder, sessionRows>>

\* setTimeout(() => this.connect(), delay) fires
ReconnectTimerFires ==
  /\ UNCHANGED notSess
  /\ reconnectTimers > 0
  /\ reconnectTimers' = reconnectTimers - 1
  /\ connect(FALSE)
  /\ UNCHANGED <<socket, reconnectAttempts, clients, logoutPc, mediaFolder, sessionRows>>

\* connect() after its awaits: makeWASocket, listeners, reset of the counter
ConnectResumes ==
  /\ UNCHANGED notSess
  /\ connectCalls > 0
  /\ connectCalls' = connectCalls - 1
  /\ \E c \in ClientIds :
       /\ clients[c] = "free"
       /\ clients' = [clients EXCEPT ![c] = "starting"]
       /\ socket' = c
  /\ reconnectAttempts' = 0
  /\ UNCHANGED <<connectionStatus, reconnectTimers, logoutPc, closeRun, loggedOut,
                 authFolder, mediaFolder, sessionRows>>

\* connect(): useMultiFileAuthState / fetchLatestBaileysVersion / makeWASocket throws
ConnectFails ==
  /\ UNCHANGED notSess
  /\ connectCalls > 0
  /\ connectCalls' = connectCalls - 1
  /\ connectionStatus' = "error"
  /\ UNCHANGED <<socket, reconnectAttempts, reconnectTimers, clients, logoutPc,
                 closeRun, loggedOut, authFolder, mediaFolder, sessionRows>>

\* connection.update with qr: qrOk = FALSE is qrcode.toDataURL throwing
OnQr ==
  \E c \in ClientIds, qrOk \in BOOLEAN :
    /\ UNCHANGED notSess
    /\ clients[c] = "starting"
    /\ connectionStatus' = IF qrOk THEN "qr_ready" ELSE connectionStatus
    /\ UNCHANGED <<socket, reconnectAttempts, reconnectTimers, clients, connectCalls,
                   logoutPc, closeRun, loggedOut, authFolder, mediaFolder, sessionRows>>

\* the handler of connection === 'close' on the session's fields
onClose(cause) ==
  /\ connectionStatus' = "disconnected"
  /\ IF cause # "loggedOut" /\ reconnectAttempts < maxReconnectAttempts
     THEN /\ reconnectTimers < MaxTimers
          /\ reconnectAttempts' = reconnectAttempts + 1
          /\ reconnectTimers' = reconnectTimers + 1
     ELSE UNCHANGED <<reconnectAttempts, reconnectTimers>>
  \* the logged-out branch calls this.deleteAuthFolder() and nothing else
  /\ authFolder' = IF cause = "loggedOut" THEN FALSE ELSE authFolder

\* connection.update with connection === 'close' from a live client
OnClose ==
  \E c \in ClientIds, cause \in CloseCauses :
    /\ UNCHANGED notSess
    /\ clients[c] # "free"
    /\ onClose(cause)
    /\ clients' = [clients EXCEPT ![c] = "free"]
    /\ socket' = IF socket = c THEN DeadRef ELSE socket
    /\ closeRun' = IF cause = "recoverable"
                   THEN Min(closeRun + 1, maxReconnectAttempts + 1)
                   ELSE 0
    /\ UNCHANGED <<connectCalls, logoutPc, loggedOut, mediaFolder, sessionRows>>

\* connection.update with connection === 'open'
OnOpen ==
  \E c \in ClientIds :
    /\ UNCHANGED notSess
    /\ clients[c] = "starting"
    /\ clients' = [clients EXCEPT ![c] = "open"]
    /\ connectionStatus' = "connected"
    /\ reconnectAttempts' = 0
    /\ closeRun' = 0
    /\ UNCHANGED <<socket, reconnectTimers, connectCalls, logoutPc, loggedOut,
                   authFolder, mediaFolder, sessionRows>>

\* connection.update with connection === 'connecting'
OnConnecting ==
  \E c \in ClientIds :
    /\ UNCHANGED notSess
    /\ clients[c] = "starting"
    /\ connectionStatus' = "connecting"
    /\ UNCHANGED <<socket, reconnectAttempts, reconnectTimers, clients, connectCalls,
                   logoutPc, closeRun, loggedOut, authFolder, mediaFolder, sessionRows>>

\* logout() up to its first await. Without a socket it goes straight on to
\* delete the two folders and awaits db.deleteSession. With a socket it
\* awaits socket.logout(): the client ends with the logged-out cause and its
\* close handler runs (ended = TRUE), or the call is rejected and the
\* rejection swallowed
LogoutBegins ==
  /\ UNCHANGED notSess
  /\ logoutPc = "idle"
  /\ IF socket = 0
     THEN /\ logoutPc' = "db"
          /\ reconnectAttempts' = maxReconnectAttempts + 1
          /\ mediaFolder' = FALSE
          /\ authFolder' = FALSE
          /\ UNCHANGED <<connectionStatus, socket, reconnectTimers, clients, closeRun>>
     ELSE /\ logoutPc' = "socket"
          /\ \E ended \in BOOLEAN :
               IF ended /\ socket \in LiveClients
               THEN /\ connectionStatus' = "disconnected"
                    /\ clients' = [clients EXCEPT ![socket] = "free"]
                    /\ socket' = DeadRef
                    /\ closeRun' = 0
                    /\ authFolder' = FALSE
               ELSE UNCHANGED <<connectionStatus, socket, clients, closeRun, authFolder>>
          /\ reconnectAttempts' = maxReconnectAttempts + 1
          /\ UNCHANGED <<reconnectTimers, mediaFolder>>
  /\ UNCHANGED <<connectCalls, loggedOut, sessionRows>>

\* logout() after socket.logout(): this.socket = null, folders deleted, then
\* it awaits db.deleteSession
LogoutDropsSocket ==
  /\ UNCHANGED notSess
  /\ logoutPc = "socket"
  /\ logoutPc' = "db"
  /\ socket' = 0
  /\ mediaFolder' = FALSE
  /\ authFolder' = FALSE
  /\ UNCHANGED <<connectionStatus, reconnectAttempts, reconnectTimers, clients,
                 connectCalls, closeRun, loggedOut, sessionRows>>

\* a deletion that writes a row when it finds none to delete
deleteSession_recreates(rows, dbOk) == IF dbOk THEN ~rows ELSE rows

\* DELETE FROM <table> WHERE session_id = ? for every session table, in one
\* transaction: all of the session's rows go, or on a failure none
deleteSession(rows, dbOk) == IF dbOk THEN FALSE ELSE rows

\* logout() after db.deleteSession, whose failure is logged and swallowed:
\* terminal disconnected. The history variable loggedOut is set only when no
\* connect() was made while logout() was running (none suspended, no client
\* alive)
LogoutEnds ==
  \E dbOk \in BOOLEAN :
    /\ UNCHANGED notSess
    /\ logoutPc = "db"
    /\ logoutPc' = "idle"
    /\ sessionRows' = deleteSession(sessionRows, dbOk)
    /\ connectionStatus' = "disconnected"
    /\ loggedOut' = (connectCalls = 0 /\ LiveClients = {})
    /\ closeRun' = 0
    /\ UNCHANGED <<socket, reconnectAttempts, reconnectTimers, clients, connectCalls,
                   authFolder, mediaFolder>>

\* messages.upsert from a connected client: the store listener writes the
\* message row and _autoSaveMedia puts a media message under the media folder
OnMessage ==
  \E c \in ClientIds, withMedia \in BOOLEAN, dbOk \in BOOLEAN :
    /\ UNCHANGED notSess
    /\ clients[c] = "open"
    /\ sessionRows' = (sessionRows \/ dbOk)
    /\ mediaFolder' = (mediaFolder \/ withMedia)
    /\ UNCHANGED <<connectionStatus, socket, reconnectAttempts, reconnectTimers, clients,
                   connectCalls, logoutPc, closeRun, loggedOut, authFolder>>

InitSession ==
  /\ connectionStatus = "disconnected"
  /\ socket = 0
  /\ reconnectAttempts = 0
  /\ reconnectTimers = 0
  /\ clients = [c \in ClientIds |-> "free"]
  /\ connectCalls = 0
  /\ logoutPc = "idle"
  /\ closeRun = 0
  /\ loggedOut = FALSE
  /\ authFolder = FALSE
  /\ mediaFolder = FALSE
  /\ sessionRows = FALSE

NextSession ==
  \/ Connect
  \/ ReconnectTimerFires
  \/ ConnectResumes
  \/ ConnectFails
  \/ OnQr
  \/ OnClose
  \/ OnOpen
  \/ OnConnecting
  \/ LogoutBegins
  \/ LogoutDropsSocket
  \/ LogoutEnds
  \/ OnMessage

(***************************************************************************)
(*                           WEBHOOK DISPATCHER                            *)
(***************************************************************************)

maxRetries == 3

Urls ==
  {[protocol |-> "https:", host |-> "a"], [protocol |-> "https:", host |-> "b"],
   [protocol |-> "ftp:", host |-> "a"]}
EventNames == {"qr", "message"}
\* the events argument of add(): arrays of event names, or not an array
EventsInputs ==
  [isArray : {TRUE}, names : {{}, {"all"}, {"qr"}}] \cup {[isArray |-> FALSE, names |-> {}]}
\* a 2xx response, another response, or fetch rejecting (network error, or the
\* abort of the request timeout)
FetchOutcomes == {"2xx", "non2xx", "rejected"}

isValidHttpUrl(url) == url.protocol = "http:" \/ url.protocol = "https:"

\* Array.isArray(events) ? events : ['all'], and ['all'] for an empty array
normalizedEvents(events) ==
  IF ~events.isArray THEN {"all"}
  ELSE IF events.names = {} THEN {"all"}
  ELSE events.names

\* this.webhooks.includes({ url }): an object literal equals no stored hook
HasUrl_byObject(list, url) == FALSE

\* this.webhooks.find(w => w.url === url)
HasUrl(list, url) == \E i \in 1..Len(list) : list[i].url = url

\* exists.events = normalizedEvents, seen through every array holding the object
SetEvents(list, url, events) ==
  [i \in 1..Len(list) |->
     IF list[i].url = url THEN [list[i] EXCEPT !.events = events] ELSE list[i]]

\* this.webhooks.filter(w => w.url !== url)
FilterOut(list, url) == SelectSeq(list, LAMBDA w : w.url # url)

\* fs.writeFileSync(configFile, {..., webhooks: this.webhooks}) of the session
saveConfig(sessionList) ==
  /\ configFile' = sessionList
  /\ lastInfo' = sessionList

add(url, events) ==
  IF ~isValidHttpUrl(url)
  THEN UNCHANGED <<webhooks, sessionWebhooks, sameArray, sharedHooks, configFile, lastInfo>>
  ELSE LET ne == normalizedEvents(events)
       IN  /\ IF HasUrl(webhooks, url)
              THEN /\ webhooks' = SetEvents(webhooks, url, ne)
                   /\ sessionWebhooks' = IF url \in sharedHooks
                                         THEN SetEvents(sessionWebhooks, url, ne)
                                         ELSE sessionWebhooks
                   /\ UNCHANGED sharedHooks
              ELSE /\ webhooks' = Append(webhooks, [url |-> url, events |-> ne])
                   /\ sessionWebhooks' = IF sameArray
                                         THEN Append(sessionWebhooks, [url |-> url, events |-> ne])
                                         ELSE sessionWebhooks
                   /\ sharedHooks' = IF sameArray THEN sharedHooks \cup {url}
                                     ELSE sharedHooks
           /\ UNCHANGED sameArray
           /\ saveConfig(sessionWebhooks')

\* POST /sessions/:sessionId/webhooks -> webhook.add(url, events)
Add ==
  \E url \in Urls, events \in EventsInputs :
    /\ add(url, events)
    /\ UNCHANGED <<deliveries, sendState, notHook>>

\* this.webhooks = this.webhooks.filter(...): a new array for the manager only
remove(url) ==
  /\ webhooks' = FilterOut(webhooks, url)
  /\ sameArray' = FALSE
  /\ sharedHooks' = sharedHooks \ {url}
  /\ UNCHANGED sessionWebhooks
  /\ saveConfig(sessionWebhooks)

\* DELETE /sessions/:sessionId/webhooks -> webhook.remove(url)
Remove ==
  \E url \in Urls :
    /\ remove(url)
    /\ UNCHANGED <<deliveries, sendState, notHook>>

\* while (attempts < this.maxRetries)
LoopContinues_inclusive(attempts) == attempts <= maxRetries

LoopContinues(attempts) == attempts < maxRetries

\* if (attempts < this.maxRetries) await Utilities.sleep(delay)
SleepBeforeRetry(attempts) == attempts < maxRetries

\* the delivery to one hook without the test of hook.events
StartDelivery_unfiltered(hook, event) ==
  [url |-> hook.url, state |-> "fetching", attempts |-> 0, calls |-> 1, lastError |-> "-"]

\* the delivery to one hook up to its first await: filtered out (null), or the
\* first fetch is under way
StartDelivery(hook, event) ==
  IF "all" \notin hook.events /\ event \notin hook.events
  THEN [url |-> hook.url, state |-> "null", attempts |-> 0, calls |-> 0, lastError |-> "-"]
  ELSE [url |-> hook.url, state |-> "fetching", attempts |-> 0, calls |-> 1, lastError |-> "-"]

\* webhook.send(event, data) up to its first await
Send ==
  \E event \in EventNames :
    /\ sendState # "running"
    /\ IF Len(webhooks) = 0
       THEN /\ sendState' = "resolved"
            /\ deliveries' = << >>
       ELSE /\ sendState' = "running"
            /\ deliveries' = [i \in 1..Len(webhooks) |-> StartDelivery(webhooks[i], event)]
    /\ UNCHANGED <<webhooks, sessionWebhooks, sameArray, sharedHooks, configFile, lastInfo,
                   notHook>>

\* after the loop body: fetch again, or leave the loop with a failure result
NextAttempt(d) ==
  IF LoopContinues(d.attempts)
  THEN [d EXCEPT !.state = "fetching", !.calls = @ + 1]
  ELSE [d EXCEPT !.state = "failed"]

\* the catch block: attempts++, lastError, and the sleep before a retry
Caught(d, outcome) ==
  LET e == [d EXCEPT !.attempts = @ + 1, !.lastError = outcome]
  IN  IF SleepBeforeRetry(e.attempts) THEN [e EXCEPT !.state = "sleeping"]
      ELSE NextAttempt(e)

\* the answer to one fetch: a 2xx response, or anything else, which is thrown
\* inside the try and caught
FetchSettles ==
  \E i \in 1..Len(deliveries), outcome \in FetchOutcomes :
    /\ sendState = "running"
    /\ deliveries[i].state = "fetching"
    /\ deliveries' = [deliveries EXCEPT ![i] =
                        IF outcome = "2xx" THEN [@ EXCEPT !.state = "delivered"]
                        ELSE Caught(@, outcome)]
    /\ UNCHANGED <<webhooks, sessionWebhooks, sameArray, sharedHooks, configFile, lastInfo,
                   sendState, notHook>>

\* Utilities.sleep(delay) is over
BackoffEnds ==
  \E i \in 1..Len(deliveries) :
    /\ sendState = "running"
    /\ deliveries[i].state = "sleeping"
    /\ deliveries' = [deliveries EXCEPT ![i] = NextAttempt(@)]
    /\ UNCHANGED <<webhooks, sessionWebhooks, sameArray, sharedHooks, configFile, lastInfo,
                   sendState, notHook>>

\* r.value.success without the optional chaining: a TypeError on a null value
valueSuccess_unguarded(state) ==
  IF state = "null" THEN "TypeError"
  ELSE IF state = "delivered" THEN "true" ELSE "false"

\* r.value?.success for the value a hook's delivery resolved to
valueSuccess(state) ==
  IF state = "null" THEN "false"
  ELSE IF state = "delivered" THEN "true" ELSE "false"

Settled(d) == d.state \in {"null", "delivered", "failed"}

\* await Promise.allSettled(deliveryPromises) returns and the summary is made
SendSettles ==
  /\ sendState = "running"
  /\ \A i \in 1..Len(deliveries) : Settled(deliveries[i])
  /\ sendState' = IF \E i \in 1..Len(deliveries) :
                       valueSuccess(deliveries[i].state) = "TypeError"
                  THEN "rejected"
                  ELSE "resolved"
  /\ UNCHANGED <<webhooks, sessionWebhooks, sameArray, sharedHooks, configFile, lastInfo,
                 deliveries, notHook>>

InitWebhook ==
  /\ webhooks = << >>
  /\ sessionWebhooks = << >>
  /\ sameArray = TRUE
  /\ sharedHooks = {}
  /\ configFile = << >>
  /\ lastInfo = << >>
  /\ deliveries = << >>
  /\ sendState = "idle"

NextWebhook ==
  \/ Add
  \/ Remove
  \/ Send
  \/ FetchSettles
  \/ BackoffEnds
  \/ SendSettles

\* the calls that change the subscriptions
NextHooks ==
  \/ Add
  \/ Remove

(***************************************************************************)
(*                            BULK JOB MANAGER                             *)
(***************************************************************************)

\* bounds of the model
MaxJobs == 2             \* bulk requests accepted in one run
KeepJobs == 1            \* the retention ceiling, 150 in the source, scaled down

recipientCeiling == 100

\* recipients.length of the requests: a single recipient, and a list with a
\* first, a middle and a last one
RecipientCounts == {1, 3}
DelayInputs == {0, 1200}

\* i < recipients.length - 1
LoopGoesOn_skipLast(i, n) == i < n - 1

\* the test of "for (let i = 0; i < recipients.length; i++)"
LoopGoesOn(i, n) == i < n

\* no sleep between the items
SleepAfter_never(i, n, delayMs) == FALSE

\* sendMessage is called for recipients[i]: one more call for that recipient
\* (none is counted when i is past the end of the list)
Invoke(calls, i) ==
  [k \in DOMAIN calls |-> IF k = i + 1 THEN calls[k] + 1 ELSE calls[k]]
SendResults == {"success", "failure", "throws"}

\* Math.round(((i + 2) / n) * 100)
Progress_nextItem(i, n) == (200 * (i + 2) + n) \div (2 * n)

\* Math.round(((i + 1) / n) * 100)
Progress(i, n) == (200 * (i + 1) + n) \div (2 * n)

\* if (i < recipients.length - 1 && delayMs > 0) await Utilities.sleep(delayMs)
SleepAfter_everyItem(i, n, delayMs) == delayMs > 0

SleepAfter(i, n, delayMs) == i < n - 1 /\ delayMs > 0

SeqRange(q) == {q[k] : k \in 1..Len(q)}

\* if (bulkJobs.size > 150) delete the first size - 150 keys
Cleanup(keys) ==
  IF Len(keys) > KeepJobs THEN SubSeq(keys, Len(keys) - KeepJobs + 1, Len(keys)) ELSE keys

\* POST /messages/bulk: the job is stored as queued, the answer is sent and the
\* worker runs up to its first await: status processing, first send under way
Submit ==
  \E n \in RecipientCounts, delayMs \in DelayInputs :
    LET jobId == Cardinality(DOMAIN jobs) + 1
    IN  /\ jobId <= MaxJobs
        /\ n > 0 /\ n <= recipientCeiling
        /\ bulkJobs' = Append(bulkJobs, jobId)
        /\ jobs' = jobs @@ (jobId :>
                      [status |-> "processing", total |-> n, sent |-> 0, failed |-> 0,
                       progress |-> 0, details |-> << >>, completedAt |-> FALSE])
        /\ workers' = workers @@ (jobId :> [i |-> 0, pc |-> "sending",
                                            delayMs |-> delayMs])
        /\ invoked' = invoked @@ (jobId :> Invoke([k \in 1..n |-> 0], 0))
        /\ outcomes' = outcomes @@ (jobId :> << >>)
        /\ UNCHANGED notBulk

\* the worker that ends after its loop without marking the job
Advance_neverCompleted(j, job) ==
  IF LoopGoesOn(workers[j].i + 1, job.total)
  THEN /\ jobs' = [jobs EXCEPT ![j] = job]
       /\ workers' = [workers EXCEPT ![j].i = @ + 1, ![j].pc = "sending"]
       /\ invoked' = [invoked EXCEPT ![j] = Invoke(@, workers[j].i + 1)]
       /\ UNCHANGED bulkJobs
  ELSE /\ jobs' = [jobs EXCEPT ![j] = job]
       /\ workers' = [k \in DOMAIN workers \ {j} |-> workers[k]]
       /\ bulkJobs' = Cleanup(bulkJobs)
       /\ UNCHANGED invoked

\* i++ and the loop test; after the loop: completed, completedAt, cleanup, and
\* the worker is over
Advance(j, job) ==
  IF LoopGoesOn(workers[j].i + 1, job.total)
  THEN /\ jobs' = [jobs EXCEPT ![j] = job]
       /\ workers' = [workers EXCEPT ![j].i = @ + 1, ![j].pc = "sending"]
       /\ invoked' = [invoked EXCEPT ![j] = Invoke(@, workers[j].i + 1)]
       /\ UNCHANGED bulkJobs
  ELSE /\ jobs' = [jobs EXCEPT ![j] = [job EXCEPT !.status = "completed",
                                                  !.completedAt = TRUE]]
       /\ workers' = [k \in DOMAIN workers \ {j} |-> workers[k]]
       /\ bulkJobs' = Cleanup(bulkJobs)
       /\ UNCHANGED invoked

\* only a returned result is counted: a throw leaves the job as it is
recordOutcome_throwLost(job, r) ==
  IF r = "success"
  THEN [job EXCEPT !.sent = @ + 1, !.details = Append(@, "sent")]
  ELSE IF r = "failure"
       THEN [job EXCEPT !.failed = @ + 1, !.details = Append(@, "failed")]
       ELSE job

\* the try / catch around sendMessage: r.success counts as sent, a result
\* without success and a throw count as failed
recordOutcome(job, r) ==
  IF r = "success"
  THEN [job EXCEPT !.sent = @ + 1, !.details = Append(@, "sent")]
  ELSE [job EXCEPT !.failed = @ + 1, !.details = Append(@, "failed")]

\* sendMessage of recipient i returns or throws: counters, details, progress,
\* then the sleep or the next iteration
SendReturns ==
  \E j \in DOMAIN workers, r \in SendResults :
    /\ workers[j].pc = "sending"
    /\ LET job == jobs[j]
           rec == recordOutcome(job, r)
           upd == [rec EXCEPT !.progress = Progress(workers[j].i, job.total)]
       IN  /\ outcomes' = [outcomes EXCEPT ![j] =
                           Append(@, IF r = "success" THEN "success" ELSE "failure")]
           /\ IF SleepAfter(workers[j].i, job.total, workers[j].delayMs)
              THEN /\ jobs' = [jobs EXCEPT ![j] = upd]
                   /\ workers' = [workers EXCEPT ![j].pc = "sleeping"]
                   /\ UNCHANGED <<bulkJobs, invoked>>
              ELSE Advance(j, upd)
    /\ UNCHANGED notBulk

\* Utilities.sleep(delayMs) is over
SleepEnds ==
  \E j \in DOMAIN workers :
    /\ workers[j].pc = "sleeping"
    /\ Advance(j, jobs[j])
    /\ UNCHANGED outcomes
    /\ UNCHANGED notBulk

\* GET /messages/bulk-status/:jobId: 404 when the Map has no such key
bulkStatusCode(jobId) == IF jobId \in SeqRange(bulkJobs) THEN 200 ELSE 404

InitBulk ==
  /\ bulkJobs = << >>
  /\ jobs = << >>
  /\ workers = << >>
  /\ invoked = << >>
  /\ outcomes = << >>

NextBulk ==
  \/ Submit
  \/ SendReturns
  \/ SleepEnds

(***************************************************************************)
(*            INITIAL RESYNC (first variant of WhatsAppSession.js)         *)
(***************************************************************************)

\* bounds of the model
MaxSyncTimers == 2       \* deferred-sync timers pending at the same time
MaxLogoutCalls == 1      \* logout() calls suspended at the same time
MaxSignals == 3          \* signals counted in one connected lifetime

OpenSignals == {"open", "receivedPendingNotifications"}
LogoutOutcomes == {"failed", "ended", "noSocket"}

\* _performInitialSync without its guard
performInitialSync_unguarded(live) ==
  /\ initialSyncDone' = TRUE
  /\ syncRuns' = IF live THEN Min(syncRuns + 1, 2) ELSE syncRuns

\* _performInitialSync up to its first await: test and set of the guard; live
\* tells whether the call is made in a connected lifetime
performInitialSync(live) ==
  IF initialSyncDone
  THEN UNCHANGED <<initialSyncDone, syncRuns>>
  ELSE /\ initialSyncDone' = TRUE
       /\ syncRuns' = IF live THEN Min(syncRuns + 1, 2) ELSE syncRuns

\* connect() of the first variant, from the API or from a reconnect timer:
\* a client is made unless the session is connected
Connect1 ==
  \E byTimer \in BOOLEAN :
    /\ byTimer => reconnectTimers > 0
    /\ reconnectTimers' = IF byTimer THEN reconnectTimers - 1 ELSE reconnectTimers
    /\ socket' = IF connectionStatus = "connected" /\ socket # 0 THEN socket ELSE 1
    /\ UNCHANGED <<connectionStatus, syncVars, notSync>>

\* connection.update with connection === 'open' or receivedPendingNotifications:
\* ready is this.socket?.groupFetchAllParticipating being there
SyncOpen ==
  \E signal \in OpenSignals, ready \in BOOLEAN :
    LET live == inLifetime \/ signal = "open"
    IN  /\ socket # 0
        /\ connectionStatus' = "connected"
        /\ inLifetime' = live
        /\ syncSignals' = IF live THEN Min(syncSignals + 1, MaxSignals) ELSE syncSignals
        /\ IF ready
           THEN performInitialSync(live) /\ UNCHANGED syncTimers
           ELSE /\ syncTimers < MaxSyncTimers
                /\ syncTimers' = syncTimers + 1
                /\ UNCHANGED <<initialSyncDone, syncRuns>>
        /\ UNCHANGED <<socket, reconnectTimers, logoutCalls, notSync>>

\* the deferred-sync timer fires
SyncTimerFires ==
  \E ready \in BOOLEAN :
    /\ syncTimers > 0
    /\ syncTimers' = syncTimers - 1
    /\ syncSignals' = IF inLifetime THEN Min(syncSignals + 1, MaxSignals) ELSE syncSignals
    /\ IF ready
       THEN performInitialSync(inLifetime)
       ELSE UNCHANGED <<initialSyncDone, syncRuns>>
    /\ UNCHANGED <<connectionStatus, socket, reconnectTimers, logoutCalls, inLifetime,
                   notSync>>

\* the handler of connection === 'close' up to its await: the guard is reset
\* and the connected lifetime is over
syncClose ==
  /\ connectionStatus' = "disconnected"
  /\ initialSyncDone' = FALSE
  /\ inLifetime' = FALSE
  /\ syncRuns' = 0
  /\ syncSignals' = 0

\* connection.update with connection === 'close': a reconnect timer, or
\* await this.logout() for the logged-out cause
SyncClose ==
  \E cause \in CloseCauses :
    /\ socket # 0
    /\ syncClose
    /\ IF cause # "loggedOut"
       THEN /\ reconnectTimers < MaxTimers
            /\ reconnectTimers' = reconnectTimers + 1
            /\ UNCHANGED logoutCalls
       ELSE /\ logoutCalls < MaxLogoutCalls
            /\ logoutCalls' = logoutCalls + 1
            /\ UNCHANGED reconnectTimers
    /\ UNCHANGED <<socket, syncTimers, notSync>>

\* logout() of the API, first variant, up to its first await
Logout1 ==
  /\ logoutCalls < MaxLogoutCalls
  /\ logoutCalls' = logoutCalls + 1
  /\ UNCHANGED <<connectionStatus, socket, reconnectTimers, initialSyncDone, syncTimers,
                 inLifetime, syncRuns, syncSignals, notSync>>

\* a suspended logout() goes on after db.deleteSession and socket.logout():
\* failed is either of them throwing (caught, nothing reset); ended is
\* socket.logout() ending the client, whose close handler runs, with its own
\* logout() call, before the fields are reset; noSocket is a session that
\* never connected
Logout1Returns ==
  \E outcome \in LogoutOutcomes :
    /\ logoutCalls > 0
    /\ CASE outcome = "failed" ->
              /\ logoutCalls' = logoutCalls - 1
              /\ UNCHANGED <<connectionStatus, initialSyncDone, inLifetime, syncRuns,
                             syncSignals>>
         [] outcome = "ended" ->
              /\ socket # 0
              /\ syncClose
              /\ UNCHANGED logoutCalls
         [] outcome = "noSocket" ->
              /\ socket = 0
              /\ logoutCalls' = logoutCalls - 1
              /\ connectionStatus' = "disconnected"
              /\ initialSyncDone' = FALSE
              /\ UNCHANGED <<inLifetime, syncRuns, syncSignals>>
    /\ UNCHANGED <<socket, reconnectTimers, syncTimers, notSync>>

InitSync ==
  /\ initialSyncDone = FALSE
  /\ syncTimers = 0
  /\ logoutCalls = 0
  /\ inLifetime = FALSE
  /\ syncRuns = 0
  /\ syncSignals = 0

NextSync ==
  \/ Connect1
  \/ SyncOpen
  \/ SyncTimerFires
  \/ SyncClose
  \/ Logout1
  \/ Logout1Returns

(***************************************************************************)
(*                 GROUP PARTICIPANTS (DatabaseStore.js)                   *)
(***************************************************************************)

\* bound of the model
MaxEntries == 4          \* entries of the stored participants list

Jids == {"A", "B"}
AdminTiers == {"none", "admin"}
ParticipantActions == {"add", "remove", "promote", "demote"}

\* An entry of the parsed list. kind "object" is a participant object { id,
\* admin } as the group metadata has it; kind "string" is a bare jid as the
\* group-participants.update event has it; kind "spread" is what { ...p, admin }
\* makes of a string p: an object of its characters, without an id property
ObjectEntry(jid, admin) == [kind |-> "object", id |-> jid, admin |-> admin]
StringEntry(jid) == [kind |-> "string", id |-> jid, admin |-> "none"]

\* the participants of a group metadata: objects, in the order A, B
MetadataInputs ==
  {<< >>} \cup {<<ObjectEntry(j, t)>> : j \in Jids, t \in AdminTiers}
          \cup {<<ObjectEntry("A", t), ObjectEntry("B", u)>> : t \in AdminTiers, u \in AdminTiers}

\* event.participants: non-empty arrays of jids
ParticipantInputs == (SUBSET Jids) \ {{}}

RECURSIVE SelectSeqBy(_, _)
\* list.filter(keep)
SelectSeqBy(list, keep) ==
  IF list = << >> THEN << >>
  ELSE IF keep[Head(list)]
       THEN <<Head(list)>> \o SelectSeqBy(Tail(list), keep)
       ELSE SelectSeqBy(Tail(list), keep)

\* participants.includes(p): an array of strings holds a string, never an object
Includes(jids, p) == p.kind = "string" /\ p.id \in jids

\* participants.includes(p.id || p)
IncludesIdOf(jids, p) ==
  \/ p.kind = "object" /\ p.id \in jids
  \/ p.kind = "string" /\ p.id \in jids

\* the strings of the list, and the strings appended by [...list, ...participants]
\* that new Set() keeps: a string is dropped when an equal string comes before
\* it, an object never equals anything else
RECURSIVE DedupStrings(_, _)
DedupStrings(list, seen) ==
  IF list = << >> THEN << >>
  ELSE LET p == Head(list)
       IN  IF p.kind = "string" /\ p.id \in seen
           THEN DedupStrings(Tail(list), seen)
           ELSE <<p>> \o DedupStrings(Tail(list),
                                      IF p.kind = "string" THEN seen \cup {p.id} ELSE seen)

\* the event's array as a list, in the order A, B
AsList(jids) ==
  (IF "A" \in jids THEN <<StringEntry("A")>> ELSE << >>)
    \o (IF "B" \in jids THEN <<StringEntry("B")>> ELSE << >>)

\* { ...p, admin: action === "promote" }
WithAdmin(p, action) ==
  [kind |-> IF p.kind = "string" THEN "spread" ELSE p.kind,
   id |-> p.id,
   admin |-> IF action = "promote" THEN "true" ELSE "false"]

\* the list _updateGroupParticipants computes from the stored one
applyParticipants(list, action, jids) ==
  CASE action = "add" -> DedupStrings(list \o AsList(jids), {})
    [] action = "remove" ->
         SelectSeqBy(list, [p \in {list[k] : k \in 1..Len(list)} |-> ~Includes(jids, p)])
    [] OTHER ->
         [k \in 1..Len(list) |->
            IF IncludesIdOf(jids, list[k]) THEN WithAdmin(list[k], action) ELSE list[k]]

\* _upsertGroupMetadata: participants = JSON.stringify(group.participants || [])
GroupsUpsert ==
  \E meta \in MetadataInputs, dbOk \in BOOLEAN :
    /\ groupRow' = (groupRow \/ dbOk)
    /\ participants' = IF dbOk THEN meta ELSE participants
    /\ UNCHANGED notGroup

\* ev.on("group-participants.update"): SELECT, compute, UPDATE; without the
\* row the UPDATE changes nothing; a failed statement is logged and swallowed
GroupParticipantsUpdate ==
  \E action \in ParticipantActions, jids \in ParticipantInputs, dbOk \in BOOLEAN :
    LET list == applyParticipants(participants, action, jids)
    IN  /\ Len(list) <= MaxEntries
        /\ participants' = IF dbOk /\ groupRow THEN list ELSE participants
        /\ UNCHANGED <<groupRow, notGroup>>

InitGroup ==
  /\ groupRow = FALSE
  /\ participants = << >>

NextGroup == GroupsUpsert \/ GroupParticipantsUpdate

(***************************************************************************)
(*                       CONTACTS (DatabaseStore.js)                       *)
(***************************************************************************)

MaxChanges == 4

\* SQL NULL and the JavaScript null that "x || null" yields
Null == "null"

ContactIds == {"A"}
Names == {Null, "n1"}
PictureUrls == {Null, "u1"}
Abouts == {Null, "s1"}
Profiles == {Null, "bp1"}

\* the fields of a contact of contacts.set / contacts.upsert / contacts.update
ContactInputs ==
  [id : ContactIds, name : Names, imgUrl : PictureUrls, status : Abouts,
   businessProfile : Profiles]

\* the outcomes of the three lookups made through the socket for a contact;
\* Null stands for a lookup that threw or returned nothing, Undefined for a
\* picture lookup that resolved without a url attribute
LookupOutcomes == [pic : PictureUrls \cup {Undefined}, about : Abouts, bp : Profiles]

\* steps of the three writes done: 0 = the contacts write threw, 1 = the
\* contacts write is done and the contact_changes write threw, 2 = both done
WriteProgress == 0..2

ContactFields == {"name", "profile_picture_url", "about", "business_profile"}

\* the "final" object built for a contact: given fields win, missing ones
\* are looked up, the business profile is always looked up
finalContact(contact, fetched) ==
  [name |-> contact.name,
   profile_picture_url |->
     IF contact.imgUrl # Null THEN contact.imgUrl ELSE fetched.pic,
   about |-> IF contact.status # Null THEN contact.status ELSE fetched.about,
   business_profile |-> fetched.bp]

\* the fields pushed to "changes" by the comparison with the existing row
changedFields(existing, final) ==
  {f \in ContactFields : existing[f] # final[f]}

\* _bulkUpsertContacts for a list of one contact.  selectOk: the SELECT of
\* the existing rows succeeded (a failure is caught and leaves none);
\* parsedJson: the driver returns the JSON column business_profile as an
\* object, and JSON.parse of an object throws
bulkUpsertContacts(contact, fetched, selectOk, parsedJson, done) ==
  LET id == contact.id
      final == finalContact(contact, fetched)
      known == selectOk /\ id \in DOMAIN contacts
      bindable == final.profile_picture_url # Undefined
  IN  /\ lastContact' = contact
      /\ IF ~known
           THEN \* INSERT INTO contacts: fails on a duplicate key
                /\ contacts' = IF id \notin DOMAIN contacts /\ bindable /\ done >= 1
                                 THEN contacts @@ (id :> final)
                                 ELSE contacts
                /\ UNCHANGED contact_changes
           ELSE LET existing == contacts[id]
                    changes == changedFields(existing, final)
                    throws == parsedJson /\ existing.business_profile # Null
                    writes == ~throws /\ changes # {} /\ bindable
                IN  /\ contact_changes + Cardinality(changes) <= MaxChanges
                    /\ contacts' = IF writes /\ done >= 1
                                     THEN [contacts EXCEPT ![id] = final]
                                     ELSE contacts
                    /\ contact_changes' = IF writes /\ done >= 2
                                            THEN contact_changes + Cardinality(changes)
                                            ELSE contact_changes

ContactsUpsert ==
  /\ \E contact \in ContactInputs, fetched \in LookupOutcomes,
        selectOk \in BOOLEAN, parsedJson \in BOOLEAN, done \in WriteProgress :
       bulkUpsertContacts(contact, fetched, selectOk, parsedJson, done)
  /\ UNCHANGED notContact

InitContact ==
  /\ contacts = <<>>
  /\ contact_changes = 0
  /\ lastContact = [id |-> Null, name |-> Null, imgUrl |-> Null, status |-> Null,
                    businessProfile |-> Null]

NextContact == ContactsUpsert

(***************************************************************************)
(*                       BLOCKLIST (DatabaseStore.js)                      *)
(***************************************************************************)

MaxBlocklist == 2

\* entries of the array a blocklist event carries: two jids, a jid with
\* surrounding white space, and a string without "@"
BlockEntries == {"A@s", "B@s", " A@s", "nojid"}

\* jid.includes("@")
HasAt(jid) == jid # "nojid"

\* jid.trim()
Trim(jid) == IF jid = " A@s" THEN "A@s" ELSE jid

BlocklistInputs ==
  UNION {[1..n -> BlockEntries] : n \in 0..MaxBlocklist}

RECURSIVE normalize(_)
\* blocklist.filter(jid => typeof jid === "string" && jid.includes("@"))
\*          .map(jid => jid.trim())
normalize(blocklist) ==
  IF blocklist = << >> THEN << >>
  ELSE IF HasAt(Head(blocklist))
       THEN <<Trim(Head(blocklist))>> \o normalize(Tail(blocklist))
       ELSE normalize(Tail(blocklist))

RECURSIVE Dedup(_, _)
\* [...new Set(list)]: the first occurrence of every string, in order
Dedup(list, seen) ==
  IF list = << >> THEN << >>
  ELSE IF Head(list) \in seen
       THEN Dedup(Tail(list), seen)
       ELSE <<Head(list)>> \o Dedup(Tail(list), seen \cup {Head(list)})

RECURSIVE Without(_, _)
\* current.filter(jid => !normalized.includes(jid))
Without(current, gone) ==
  IF current = << >> THEN << >>
  ELSE IF Head(current) \in gone
       THEN Without(Tail(current), gone)
       ELSE <<Head(current)>> \o Without(Tail(current), gone)

Range(list) == {list[k] : k \in 1..Len(list)}

\* the list read back from the table: JSON.parse(rows[0].blocked_jids), or
\* [] when the session has no row
currentBlocklist(table) == IF table = << >> THEN << >> ELSE table[1]

\* _upsertBlocklist: the statement it sends, if any.  write = FALSE stands
\* for the early return on an empty normalized list
upsertBlocklist(blocklist) ==
  LET normalized == normalize(blocklist)
  IN  [write |-> normalized # << >>, list |-> normalized]

\* _updateBlocklist: the statement it sends, if any, given the list read
updateBlocklist(current, type, blocklist) ==
  LET normalized == normalize(blocklist)
      updated == IF type = "add"
                   THEN Dedup(current \o normalized, {})
                   ELSE Without(current, Range(normalized))
  IN  [write |-> /\ normalized # << >>
                 /\ ~(Len(updated) = Len(current) /\ type = "add"),
       list |-> updated]

\* INSERT ... ON DUPLICATE KEY UPDATE blocked_jids = VALUES(blocked_jids);
\* a failure of the statement is caught and logged
writeBlocklist(table, stmt, dbOk) ==
  IF stmt.write /\ dbOk THEN <<stmt.list>> ELSE table

BlocklistSet ==
  /\ \E blocklist \in BlocklistInputs, dbOk \in BOOLEAN :
       /\ device_blocklist' =
            writeBlocklist(device_blocklist, upsertBlocklist(blocklist), dbOk)
       /\ lastBlocklist' = [type |-> "set", blocklist |-> blocklist, dbOk |-> dbOk]
  /\ UNCHANGED notBlock

BlocklistUpdate ==
  /\ \E type \in {"add", "remove"}, blocklist \in BlocklistInputs, dbOk \in BOOLEAN :
       /\ device_blocklist' =
            writeBlocklist(device_blocklist,
                           updateBlocklist(currentBlocklist(device_blocklist),
                                           type, blocklist),
                           dbOk)
       /\ lastBlocklist' = [type |-> type, blocklist |-> blocklist, dbOk |-> dbOk]
  /\ UNCHANGED notBlock

InitBlock ==
  /\ device_blocklist = << >>
  /\ lastBlocklist = [type |-> "none", blocklist |-> << >>, dbOk |-> TRUE]

NextBlock == BlocklistSet \/ BlocklistUpdate

(***************************************************************************)
(*                         DATABASE ACCESS LAYER                           *)
(***************************************************************************)

\* mysql.createPool({ connectionLimit: 100, waitForConnections: true })
connectionLimit == 100
\* mysqlQuery(sql, params = [], maxRetries = 1), and = 3 in the second
\* DatabaseStore of the file; no caller passes the argument
maxRetriesDefault == 1
maxRetriesDefault_second == 3

\* bound of the model
MaxOps == 2              \* calls of the access layer under way at the same time

OpIds == 1..MaxOps

NoOp ==
  [kind |-> "none", pc |-> "done", attempt |-> 0, maxRetries |-> 0, conn |-> FALSE,
   acquired |-> 0, released |-> 0, delay |-> 0, result |-> "none"]

\* await new Promise(r => setTimeout(r, 200 * attempt * attempt))
backoff(attempt) == 200 * attempt * attempt

\* if (attempt === maxRetries) throw err
lastAttempt(attempt, retries) == attempt = retries

\* the finally block that gives nothing back
release_never(conn) == 0

\* finally { if (conn) conn.release(); }: the connections given back
release(conn) == IF conn THEN 1 ELSE 0

\* the call leaves its try statement through finally and is over
finished(op, result) ==
  [op EXCEPT !.pc = "done", !.result = result, !.conn = FALSE,
             !.released = @ + release(op.conn)]

\* mysqlQuery(sql, params) up to conn = await this.mysqlPool.getConnection()
QueryCalled ==
  \E o \in OpIds, retries \in {maxRetriesDefault, maxRetriesDefault_second} :
    /\ ops[o].pc = "done"
    /\ ops' = [ops EXCEPT ![o] = [NoOp EXCEPT !.kind = "query", !.pc = "getConnection",
                                              !.attempt = 1, !.maxRetries = retries]]
    /\ UNCHANGED <<inUse, notDb>>

\* mysqlTransaction(asyncFn) up to conn = await this.mysqlPool.getConnection()
TransactionCalled ==
  \E o \in OpIds :
    /\ ops[o].pc = "done"
    /\ ops' = [ops EXCEPT ![o] = [NoOp EXCEPT !.kind = "transaction",
                                              !.pc = "getConnection"]]
    /\ UNCHANGED <<inUse, notDb>>

\* the catch block of mysqlQuery: throw on the last attempt (finally runs
\* then), else the backoff, during which conn is still held
queryCaught(op) ==
  IF lastAttempt(op.attempt, op.maxRetries)
  THEN finished(op, "thrown")
  ELSE [op EXCEPT !.pc = "sleeping", !.delay = backoff(op.attempt)]

\* getConnection settles: a connection of the pool, or an error (the pool is
\* closed, the queue is full, the server is away)
GetConnectionSettles ==
  \E o \in OpIds, ok \in BOOLEAN :
    /\ ops[o].pc = "getConnection"
    /\ ok => inUse < connectionLimit
    /\ IF ok
       THEN /\ ops' = [ops EXCEPT ![o].conn = TRUE, ![o].acquired = @ + 1,
                                  ![o].pc = IF ops[o].kind = "query" THEN "execute"
                                            ELSE "beginTransaction"]
            /\ inUse' = inUse + 1
       ELSE /\ ops' = [ops EXCEPT ![o] = IF ops[o].kind = "query" THEN queryCaught(@)
                                         ELSE finished(@, "thrown")]
            /\ UNCHANGED inUse
    /\ UNCHANGED notDb

\* conn.execute(sql, params) settles: return rows, or the catch block
ExecuteSettles ==
  \E o \in OpIds, ok \in BOOLEAN :
    /\ ops[o].pc = "execute"
    /\ LET after == IF ok THEN finished(ops[o], "rows") ELSE queryCaught(ops[o])
       IN  /\ ops' = [ops EXCEPT ![o] = after]
           /\ inUse' = inUse - (after.released - ops[o].released)
    /\ UNCHANGED notDb

\* the backoff is over: finally, then attempt++ and the next getConnection
BackoffOver ==
  \E o \in OpIds :
    /\ ops[o].pc = "sleeping"
    /\ ops' = [ops EXCEPT ![o].pc = "getConnection", ![o].attempt = @ + 1,
                          ![o].conn = FALSE,
                          ![o].released = @ + release(ops[o].conn)]
    /\ inUse' = inUse - release(ops[o].conn)
    /\ UNCHANGED notDb

TransactionSteps == <<"beginTransaction", "asyncFn", "commit">>

\* beginTransaction, asyncFn(conn) or commit settles: the next step, the
\* return after commit, or the catch block with its await conn.rollback()
TransactionStepSettles ==
  \E o \in OpIds, k \in 1..3, ok \in BOOLEAN :
    /\ ops[o].pc = TransactionSteps[k]
    /\ LET after == IF ~ok THEN [ops[o] EXCEPT !.pc = "rollback"]
                    ELSE IF k < 3 THEN [ops[o] EXCEPT !.pc = TransactionSteps[k + 1]]
                    ELSE finished(ops[o], "rows")
       IN  /\ ops' = [ops EXCEPT ![o] = after]
           /\ inUse' = inUse - (after.released - ops[o].released)
    /\ UNCHANGED notDb

\* conn.rollback() settles: throw err, or the error of the rollback itself;
\* finally runs in both cases
RollbackSettles ==
  \E o \in OpIds, ok \in BOOLEAN :
    /\ ops[o].pc = "rollback"
    /\ LET after == finished(ops[o], "thrown")
       IN  /\ ops' = [ops EXCEPT ![o] = after]
           /\ inUse' = inUse - (after.released - ops[o].released)
    /\ UNCHANGED notDb

InitDb ==
  /\ ops = [o \in OpIds |-> NoOp]
  /\ inUse = 0

NextDb ==
  \/ QueryCalled
  \/ TransactionCalled
  \/ GetConnectionSettles
  \/ ExecuteSettles
  \/ BackoffOver
  \/ TransactionStepSettles
  \/ RollbackSettles

(***************************************************************************)
(*                             EVENT PIPELINE                              *)
(***************************************************************************)

\* bound of the model
MaxEmits == 2            \* emits of one event that are counted

PipelineEvents == {"chats.upsert", "contacts.upsert", "messages.set", "messages.update"}

\* the listeners of bind() whose write is inside a try / catch, in the
\* listener or in the helper it awaits: the failure is logged and the
\* listener's promise resolves; contacts.set / upsert / update and
\* messages.set await their write bare
CaughtInListener == {"chats.upsert", "messages.update"}

\* what Node.js does with a rejected promise that has no handler:
\* --unhandled-rejections=throw (the default since Node 15) ends the process
\* with an uncaught exception, warn and none let it run
RejectionModes == {"throw", "warn"}

\* the listener awaits its write and the write fails
listenerRejects(event, writeOk) == ~writeOk /\ event \notin CaughtInListener

\* ev.emit(event): the listeners of bind() and of _setupEventListeners run in
\* the order of registration; an async listener returns its promise at its
\* first await, so the listeners after it run too; the write settles later
\* and rejects the promise of a listener that does not catch it
Emit ==
  \E event \in PipelineEvents, writeOk \in BOOLEAN :
    /\ processAlive
    /\ handledEvents[event] < MaxEmits
    /\ handledEvents' = [handledEvents EXCEPT ![event] = @ + 1]
    /\ rejections' = IF listenerRejects(event, writeOk) THEN rejections + 1
                     ELSE rejections
    /\ UNCHANGED <<processAlive, notPipe>>

\* process 'unhandledRejection': no handler is registered for it
UnhandledRejection ==
  \E mode \in RejectionModes :
    /\ processAlive
    /\ rejections > 0
    /\ rejections' = rejections - 1
    /\ processAlive' = (mode # "throw")
    /\ UNCHANGED <<handledEvents, notPipe>>

InitPipe ==
  /\ processAlive = TRUE
  /\ rejections = 0
  /\ handledEvents = [e \in PipelineEvents |-> 0]

NextPipe == Emit \/ UnhandledRejection

(***************************************************************************)
(*                            MESSAGE MANAGER                              *)
(***************************************************************************)

\* the methods of class WebhookManager
WebhookManagerMethods == {"add", "remove", "list", "send", "clear"}

ClientAnswers == {"accepts", "throws"}
SendMethods == {"sendMessage", "send"}

\* if (!this.socket || this.session.connectionStatus !== 'connected') return
\* { success: false, message: 'Session is not connected' }
notConnected(thisSocket, status) == thisSocket = 0 \/ status # "connected"

\* sendMessage after the Protocol Client has answered: its throw is caught;
\* after its acceptance session.wsManager is undefined and skipped by ?., and
\* session.webhook._sendWebhook is called, which throws a TypeError when
\* the WebhookManager has no such method, and that is caught as well
afterClient(answer) ==
  IF answer = "throws" THEN "failed"
  ELSE IF "_sendWebhook" \in WebhookManagerMethods THEN "success" ELSE "failed"

NoSend ==
  [method |-> "none", connected |-> FALSE, live |-> 0, passedTo |-> 0,
   accepted |-> FALSE, result |-> "none"]

\* a send operation up to its first await: sendMessage(to, content, options)
\* of the second MessageManager or send(chatId, text, options) of the first,
\* with typingTime 0; valid is what the checks of to and content give
SendCalled ==
  \E method \in SendMethods, valid \in BOOLEAN :
    /\ sendPc = "idle"
    /\ LET call == [NoSend EXCEPT !.method = method,
                                  !.connected = (connectionStatus = "connected"),
                                  !.live = socket]
       IN  IF notConnected(messageSocket, connectionStatus)
           THEN /\ lastSend' = [call EXCEPT !.result = "notConnected"]
                /\ sendPc' = "idle"
           ELSE IF ~valid
                THEN /\ lastSend' = [call EXCEPT !.result = "invalid"]
                     /\ sendPc' = "idle"
                ELSE /\ lastSend' = [call EXCEPT !.passedTo = messageSocket]
                     /\ sendPc' = "atClient"
    /\ UNCHANGED <<messageSocket, sessVars, hookVars, notManager>>

\* await this.socket.sendMessage(...) settles; a client that is not open
\* accepts nothing. sendMessage goes on to its result. send goes on to
\* wsManager.emitMessageSent, where wsManager is no binding of its module (a
\* ReferenceError unless a global of that name exists), and then to
\* await this.session.webhook.send('message.sent', sent)
ClientSettles ==
  \E answer \in ClientAnswers, wsGlobal \in BOOLEAN :
    /\ sendPc = "atClient"
    /\ answer = "accepts" => clients[lastSend.passedTo] = "open"
    /\ IF lastSend.method = "send" /\ answer = "accepts" /\ wsGlobal
       THEN /\ sendPc' = "atWebhook"
            /\ lastSend' = [lastSend EXCEPT !.accepted = TRUE]
            /\ IF Len(webhooks) = 0
               THEN /\ sendState' = "resolved"
                    /\ deliveries' = << >>
               ELSE /\ sendState' = "running"
                    /\ deliveries' = [i \in 1..Len(webhooks) |->
                                        StartDelivery(webhooks[i], "message.sent")]
       ELSE /\ sendPc' = "idle"
            /\ lastSend' = [lastSend EXCEPT
                              !.accepted = (answer = "accepts"),
                              !.result = IF lastSend.method = "sendMessage"
                                         THEN afterClient(answer) ELSE "failed"]
            /\ UNCHANGED <<sendState, deliveries>>
    /\ UNCHANGED <<messageSocket, sessVars, webhooks, sessionWebhooks, sameArray,
                   sharedHooks, configFile, lastInfo, notManager>>

\* await this.session.webhook.send(...) returns to send, which returns its
\* result
SendResumes ==
  /\ sendPc = "atWebhook"
  /\ sendState \in {"resolved", "rejected"}
  /\ sendPc' = "idle"
  /\ lastSend' = [lastSend EXCEPT !.result = IF sendState = "resolved" THEN "success"
                                              ELSE "failed"]
  /\ UNCHANGED <<messageSocket, sessVars, hookVars, notManager>>

\* new MessageManager(session) in the session's constructor: this.socket =
\* session.socket, which is null there
InitMessage ==
  /\ messageSocket = 0
  /\ sendPc = "idle"
  /\ lastSend = NoSend

\* the send operations taken on their own: the socket field of the manager is
\* an input, as are the session and its clients
InitManager ==
  /\ InitStore /\ InitSession /\ InitWebhook /\ InitBulk /\ InitSync /\ InitGroup
  /\ InitContact /\ InitBlock /\ InitDb /\ InitPipe
  /\ messageSocket \in {0} \cup ClientIds
  /\ sendPc = "idle"
  /\ lastSend = NoSend

NextManager ==
  \/ Connect
  \/ ConnectResumes
  \/ OnOpen
  \/ Add
  \/ SendCalled
  \/ ClientSettles
  \/ FetchSettles
  \/ BackoffEnds
  \/ SendSettles
  \/ SendResumes

\* the session as it is constructed, connecting, closing and reconnecting, with
\* sends called at any time
NextSend ==
  \/ Connect
  \/ ConnectResumes
  \/ OnOpen
  \/ OnClose
  \/ ReconnectTimerFires
  \/ SendCalled

(***************************************************************************)
(*                             SPECIFICATIONS                              *)
(***************************************************************************)

Init == InitStore /\ InitSession /\ InitWebhook /\ InitBulk /\ InitSync /\ InitGroup
          /\ InitContact /\ InitBlock /\ InitMessage /\ InitDb /\ InitPipe

SpecStore == Init /\ [][NextStore]_vars

SpecChats == Init /\ [][NextChats]_vars

SpecSession == Init /\ [][NextSession]_vars

SpecWebhook == Init /\ [][NextWebhook]_vars

SpecHooks == Init /\ [][NextHooks]_vars

SpecBulk == Init /\ [][NextBulk]_vars

\* every await of a worker settles: sendMessage returns or throws, and the
\* timer of Utilities.sleep fires
SpecBulkFair ==
  Init /\ [][NextBulk]_vars /\ WF_vars(SendReturns) /\ WF_vars(SleepEnds)

SpecSync == Init /\ [][NextSync]_vars

SpecGroup == Init /\ [][NextGroup]_vars

SpecContact == Init /\ [][NextContact]_vars

SpecBlock == Init /\ [][NextBlock]_vars

SpecDb == Init /\ [][NextDb]_vars

SpecPipe == Init /\ [][NextPipe]_vars

SpecSend == Init /\ [][NextSend]_vars

SpecManager == InitManager /\ [][NextManager]_vars

(***************************************************************************)
(*                                 CLAIMS                                  *)
(***************************************************************************)

\* ---- derived values the claims speak about ----

unread_count(c) ==
  IF c \in DOMAIN chats_overview THEN chats_overview[c].unread_count ELSE 0

UnreadMessages(c) ==
  {k \in DOMAIN messages :
     k[1] = c /\ ~messages[k].from_me /\ messages[k].status # "read"}

\* C1: for every chat the stored unread counter equals the number of persisted
\* inbound messages of that chat whose status is not "read"
UnreadCounterConsistent ==
  \A c \in Chats : unread_count(c) = Cardinality(UnreadMessages(c))

\* C2: in every reachable store state, handling an ingestion event (a message
\* upsert of any delivery type, a status update) a second time leaves messages
\* and chat overviews exactly as the first handling left them
IdempotentIngestion ==
  /\ \A type \in UpsertTypes, msg \in MsgInputs :
       LET once == messages_upsert(Store, type, msg)
       IN  messages_upsert(once, type, msg) = once
  /\ \A upd \in UpdateInputs :
       LET once == updateMessage(Store, upd)
       IN  updateMessage(once, upd) = once

\* an inbound unread message M1 of C1 is stored and counted once, and its
\* redelivery is handled by the update path of the upsert
IdempotentIngestionWitness ==
  /\ <<"C1", "M1">> \in DOMAIN messages
  /\ ~messages[<<"C1", "M1">>].from_me
  /\ messages[<<"C1", "M1">>].status = "sent"
  /\ unread_count("C1") = 1
  /\ messages_upsert(Store, "notify",
        [remoteJid |-> "C1", id |-> "M1", fromMe |-> FALSE, status |-> "sent"]) = Store

\* C3: once maxReconnectAttempts recoverable closes have been handled in a row
\* with no open in between, no step schedules another reconnect
ReconnectBound ==
  [][closeRun >= maxReconnectAttempts => reconnectTimers' <= reconnectTimers]_vars

\* C4: after logout() has completed and until connect() is called again, no
\* reconnect is scheduled and the session does not go to connecting
TerminalLogout ==
  [][(loggedOut /\ loggedOut')
       => (reconnectTimers' <= reconnectTimers /\ connectionStatus' # "connecting")]_vars

\* a connect is in flight: suspended in connect(), or its client has started
\* and has neither opened nor closed
ConnectInFlight ==
  connectCalls > 0 \/ \E c \in ClientIds : clients[c] = "starting"

\* C5: while a connect is in flight no further connect() call gets past the
\* guard, so no second Protocol Client is started
ConnectRejectedInFlight ==
  [][ConnectInFlight => connectCalls' <= connectCalls]_vars

\* C7: a subscriber that fails every attempt is called exactly maxRetries (3)
\* times: no delivery ever makes a 4th call, and a delivery ends as failed only after
\* its 3rd call
ThreeAttemptsThenGiveUp ==
  \A i \in 1..Len(deliveries) :
    /\ deliveries[i].calls <= maxRetries
    /\ deliveries[i].state = "failed"
         => (deliveries[i].calls = maxRetries /\ deliveries[i].attempts = maxRetries)

\* a send has finished in which one subscriber answered HTTP non-2xx every time
ThreeAttemptsWitness ==
  /\ sendState = "resolved"
  /\ \E i \in 1..Len(deliveries) :
       /\ deliveries[i].state = "failed"
       /\ deliveries[i].lastError = "non2xx"
       /\ deliveries[i].calls = 3

\* C8: send() never rejects, whatever the subscribers answer
SendNeverRaises == sendState # "rejected"

\* a send has resolved although the last fetch of a subscriber was rejected
\* (network error or timeout) and another hook was filtered out
SendNeverRaisesWitness ==
  /\ sendState = "resolved"
  /\ \E i \in 1..Len(deliveries) :
       deliveries[i].state = "failed" /\ deliveries[i].lastError = "rejected"
  /\ \E i \in 1..Len(deliveries) : deliveries[i].state = "null"

\* C9: the persisted configuration and the snapshot returned by the last add
\* or remove hold exactly the list the dispatcher delivers to
PersistedIsDispatched ==
  configFile = webhooks /\ lastInfo = webhooks

\* C6: for every job, at every moment between two steps of the event loop,
\* sent + failed = total exactly when status = "completed"
BulkAccounting ==
  \A j \in DOMAIN jobs :
    (jobs[j].sent + jobs[j].failed = jobs[j].total) <=> (jobs[j].status = "completed")

\* one job has completed with a sent and a failed recipient while another is
\* still processing with recipients left
BulkAccountingWitness ==
  \E j, k \in DOMAIN jobs :
    /\ jobs[j].status = "completed"
    /\ jobs[j].sent = 2 /\ jobs[j].failed = 1 /\ jobs[j].total = 3
    /\ jobs[k].status = "processing"
    /\ jobs[k].sent + jobs[k].failed = 2 /\ jobs[k].total = 3

\* C10: retention never evicts a job that has not completed: the status of
\* every job that is still queued or processing can be fetched
OnlyCompletedEvicted ==
  \A j \in DOMAIN jobs : jobs[j].status # "completed" => bulkStatusCode(j) = 200

\* position of a delivery status on sent -> delivered -> read/played
StatusRank(st) ==
  CASE st = "sent" -> 1
    [] st = "delivered" -> 2
    [] OTHER -> 3

\* C11: the delivery status of a persisted message never moves backwards
\* along sent -> delivered -> read/played, under any message upsert or
\* status-update event
StatusMonotonic ==
  [][\A k \in DOMAIN messages :
       StatusRank(messages'[k].status) >= StatusRank(messages[k].status)]_vars

\* the edges of the session state machine: the chain disconnected ->
\* connecting -> qr_ready -> connected -> (disconnected | error), read
\* generously: a close or a logout leads to disconnected from every state, a
\* failed connect leads to error, restored credentials lead from connecting
\* straight to connected, and connect leads out of error
StateMachineEdges ==
  {<<"disconnected", "connecting">>, <<"error", "connecting">>,
   <<"connecting", "qr_ready">>, <<"connecting", "connected">>,
   <<"qr_ready", "connected">>,
   <<"connecting", "disconnected">>, <<"qr_ready", "disconnected">>,
   <<"connected", "disconnected">>, <<"error", "disconnected">>,
   <<"connecting", "error">>, <<"qr_ready", "error">>, <<"connected", "error">>}

\* C12: every change of connectionStatus follows an edge of the state
\* machine, and disconnected -> connecting is taken only by a connect() call
\* (of the API or of a reconnect timer), never by an event of a client
StateMachineRespected ==
  [][/\ connectionStatus' # connectionStatus
        => <<connectionStatus, connectionStatus'>> \in StateMachineEdges
     /\ (connectionStatus = "disconnected" /\ connectionStatus' = "connecting")
        => connectCalls' > connectCalls]_vars

\* C13: within one connected lifetime, from a "connection open" to the next
\* "connection closed", the initial resync starts at most once
InitialSyncOnce == syncRuns <= 1

\* a connected lifetime in which three signals were handled, a deferred-sync
\* timer is still pending, and the resync has run once
InitialSyncOnceWitness ==
  inLifetime /\ syncRuns = 1 /\ syncSignals = MaxSignals /\ syncTimers > 0

\* a step in which the close handler runs for the logged-out cause signalled
\* by the far end: a client ends outside logout() and the run of recoverable
\* closes is cut
LoggedOutClose ==
  /\ \E c \in ClientIds : clients[c] # "free" /\ clients'[c] = "free"
  /\ closeRun' = 0
  /\ logoutPc' = logoutPc

\* C14: once a "connection closed" with the logged-out cause has been
\* handled, the session is disconnected, the handler has scheduled no
\* reconnect, and both the authentication folder and the media folder are gone
LoggedOutPurges ==
  [][LoggedOutClose =>
       /\ connectionStatus' = "disconnected"
       /\ reconnectTimers' <= reconnectTimers
       /\ ~authFolder'
       /\ ~mediaFolder']_vars

\* the state a completed logout() leaves when nothing else has happened
\* while it ran or since
PostLogout ==
  /\ loggedOut
  /\ connectionStatus = "disconnected"
  /\ socket = 0
  /\ reconnectAttempts = maxReconnectAttempts + 1
  /\ connectCalls = 0
  /\ LiveClients = {}
  /\ ~authFolder
  /\ ~mediaFolder

\* C15: a logout() called right after a logout() goes through all its steps
\* and changes nothing: status, socket, attempt counter, timers, clients and
\* folders stay as the first call left them, and no row of the session
\* appears (rows that a failed deletion of the first call left may go, as
\* they may in a single call)
LogoutIdempotent ==
  [][(PostLogout /\ logoutPc' # logoutPc) =>
       /\ UNCHANGED <<connectionStatus, socket, reconnectAttempts, reconnectTimers,
                      clients, connectCalls, loggedOut, authFolder, mediaFolder>>
       /\ (sessionRows' => sessionRows)
       /\ logoutPc' \in {"db", "idle"}]_vars

\* a second logout() in a row is at its await of db.deleteSession
LogoutIdempotentWitness == PostLogout /\ logoutPc = "db"

\* C16: once logout() has returned, and until connect() is called again, the
\* Event Store holds no row of the session
NoRowsAfterLogout == loggedOut => ~sessionRows

MessagesOf(msgs, c) == {k \in DOMAIN msgs : k[1] = c}

EntriesOf(list, jid) ==
  {k \in 1..Len(list) : list[k].kind \in {"object", "string"} /\ list[k].id = jid}

\* C18: from every stored list, "add P" applied twice leaves P present exactly
\* once, and "remove P" with P absent leaves the list unchanged
ParticipantSetIdempotent ==
  \A jid \in Jids :
    LET twice == applyParticipants(applyParticipants(participants, "add", {jid}),
                                   "add", {jid})
    IN  /\ Cardinality(EntriesOf(twice, jid)) = 1
        /\ EntriesOf(participants, jid) = {}
             => applyParticipants(participants, "remove", {jid}) = participants

\* C19: from every stored list, a promote or demote keeps the members as
\* they are, entry by entry, and changes nothing but the admin tier of the
\* entries it names
PromoteOnlyChangesTier ==
  \A action \in {"promote", "demote"}, jids \in ParticipantInputs :
    LET after == applyParticipants(participants, action, jids)
    IN  /\ Len(after) = Len(participants)
        /\ \A k \in 1..Len(participants) :
             /\ after[k].kind = participants[k].kind
             /\ after[k].id = participants[k].id
             /\ ~IncludesIdOf(jids, participants[k]) => after[k] = participants[k]

\* the fields of the contact of an event all equal the stored row: the
\* row exists and holds the name, picture url, about text and business
\* profile the contact carries
EqualsStoredRow(contact, rows) ==
  /\ contact.id \in DOMAIN rows
  /\ rows[contact.id].name = contact.name
  /\ rows[contact.id].profile_picture_url = contact.imgUrl
  /\ rows[contact.id].about = contact.status
  /\ rows[contact.id].business_profile = contact.businessProfile

FullSyncReplaces ==
  /\ lastBlocklist.type = "set"
  /\ lastBlocklist.dbOk
  /\ normalize(lastBlocklist.blocklist) = lastBlocklist.blocklist
  => currentBlocklist(device_blocklist) = lastBlocklist.blocklist

\* C22: from every stored blocklist, an add or remove update that leaves the
\* set of blocked identities as it is sends no statement to the database
IncrementalWritesOnlyChanges ==
  \A type \in {"add", "remove"}, blocklist \in BlocklistInputs :
    LET current == currentBlocklist(device_blocklist)
        stmt == updateBlocklist(current, type, blocklist)
    IN  Range(stmt.list) = Range(current) => ~stmt.write

\* C23: the progress of a bulk job never decreases and is 100 only when the
\* job is completed; and for every recipient count from 1 to the ceiling of
\* 100 the value written after item i grows with i and is 100 for the last
\* item only.  The second part does not depend on the state: it is stated
\* once, for the steps taken while no job exists yet
ProgressOnlyGrows ==
  [][/\ \A j \in DOMAIN jobs : jobs'[j].progress >= jobs[j].progress
     /\ \A j \in DOMAIN jobs' :
          jobs'[j].progress = 100 => jobs'[j].status = "completed"
     /\ jobs = << >> =>
          \A n \in 1..recipientCeiling : \A i \in 0..(n - 1) :
            /\ i + 1 < n => Progress(i, n) <= Progress(i + 1, n)
            /\ Progress(i, n) = 100 <=> i = n - 1]_vars

\* a job of three recipients is completed at 100 while another one is still
\* processing, two of its three items recorded
ProgressOnlyGrowsWitness ==
  \E j, k \in DOMAIN jobs :
    /\ jobs[j].status = "completed" /\ jobs[j].total = 3 /\ jobs[j].progress = 100
    /\ jobs[k].status = "processing" /\ jobs[k].total = 3 /\ jobs[k].progress = 67

\* C24: in a bulk job sendMessage is called at most once for every recipient
\* at any time, and exactly once for every recipient when the job is
\* completed, whatever the earlier sends returned or threw
SendOncePerRecipient ==
  \A j \in DOMAIN jobs :
    /\ \A k \in DOMAIN invoked[j] : invoked[j][k] <= 1
    /\ jobs[j].status = "completed" => \A k \in DOMAIN invoked[j] : invoked[j][k] = 1

\* a job of three recipients is completed although its first two sends failed
SendOncePerRecipientWitness ==
  \E j \in DOMAIN jobs :
    /\ jobs[j].status = "completed"
    /\ jobs[j].details = <<"failed", "failed", "sent">>
    /\ \A k \in 1..3 : invoked[j][k] = 1

\* the sends of job j that were called and have not returned yet
InFlight(calls, job) ==
  Cardinality({k \in DOMAIN calls : calls[k] > 0}) - Len(job.details)

\* C25: within one bulk job at most one send is in flight, and a step that
\* calls sendMessage for recipient k does so when the recipients before k, and
\* only they, have been sent to and have their outcome in the details, and,
\* for k > 1 with a positive delay, as the step that ends the sleep
SequentialSends ==
  [][\A j \in DOMAIN invoked' :
       /\ InFlight(invoked'[j], jobs'[j]) \in {0, 1}
       /\ \A k \in DOMAIN invoked'[j] :
            (IF j \in DOMAIN invoked THEN invoked[j][k] ELSE 0) < invoked'[j][k]
              => /\ \A m \in DOMAIN invoked'[j] :
                      invoked'[j][m] = (IF m <= k THEN 1 ELSE 0)
                 /\ Len(jobs'[j].details) = k - 1
                 /\ k > 1 /\ workers[j].delayMs > 0 => workers[j].pc = "sleeping"]_vars

\* the third send of a job with a delay is in flight, two outcomes recorded
SequentialSendsWitness ==
  \E j \in DOMAIN workers :
    /\ workers[j].delayMs > 0 /\ workers[j].i = 2 /\ workers[j].pc = "sending"
    /\ Len(jobs[j].details) = 2
    /\ invoked[j] = <<1, 1, 1>>

\* how many of the sends of a job succeeded
Succeeded(results) == Cardinality({k \in 1..Len(results) : results[k] = "success"})

\* C29: once the three sends of a job with 3 recipients are over, two of
\* them with success and one without (a result without success, or a throw),
\* the job is completed with sent = 2, failed = 1 and three entries in details
ThreeRecipientsScenario ==
  \A j \in DOMAIN jobs :
    jobs[j].total = 3 /\ Len(outcomes[j]) = 3 /\ Succeeded(outcomes[j]) = 2
      => /\ jobs[j].status = "completed"
         /\ jobs[j].sent = 2
         /\ jobs[j].failed = 1
         /\ Len(jobs[j].details) = 3

\* the scenario has run, the send in the middle having failed
ThreeRecipientsScenarioWitness ==
  \E j \in DOMAIN jobs :
    jobs[j].total = 3 /\ outcomes[j] = <<"success", "failure", "success">>

\* the filter of a subscription names the event, or "all"
Matches(hook, event) == "all" \in hook.events \/ event \in hook.events

\* a step in which send(event) starts its deliveries
Dispatch(event) ==
  /\ sendState # "running" /\ sendState' = "running"
  /\ deliveries' = [i \in 1..Len(webhooks) |-> StartDelivery(webhooks[i], event)]

\* C26: when an event is dispatched, a request is made to exactly the
\* subscribers whose filter holds the event name or "all"; and while the
\* send runs, a subscriber that was filtered out is never sent a request
FilterRespected ==
  [][/\ \A event \in EventNames :
          Dispatch(event) =>
            \A i \in 1..Len(webhooks) :
              deliveries'[i].calls > 0 <=> Matches(webhooks[i], event)
     /\ sendState = "running" =>
          \A i \in 1..Len(deliveries) :
            deliveries[i].calls = 0 => deliveries'[i].calls = 0]_vars

\* a send is running in which one subscriber was filtered out and another
\* has been sent a request
FilterRespectedWitness ==
  /\ sendState = "running"
  /\ \E i, k \in 1..Len(deliveries) :
       /\ deliveries[i].state = "null" /\ deliveries[i].calls = 0
       /\ deliveries[k].calls > 0

\* the entries of a subscription list for one url
HooksOf(list, url) == {i \in 1..Len(list) : list[i].url = url}

\* C27: the list the dispatcher delivers to and the list of the session hold
\* at most one subscription per url after every step of add or remove (the
\* steps that leave the deliveries alone), and a step that is add(url, events)
\* with a valid url leaves exactly one entry for url, holding the normalized
\* events, and adds no entry when url was registered
AddIsUpsert ==
  [][UNCHANGED <<deliveries, sendState>> =>
       /\ \A url \in Urls :
            /\ Cardinality(HooksOf(webhooks', url)) <= 1
            /\ Cardinality(HooksOf(sessionWebhooks', url)) <= 1
       /\ \A url \in Urls, events \in EventsInputs :
            isValidHttpUrl(url) /\ add(url, events) =>
              /\ \E i \in 1..Len(webhooks') :
                   /\ HooksOf(webhooks', url) = {i}
                   /\ webhooks'[i].events = normalizedEvents(events)
              /\ HooksOf(webhooks, url) # {} => Len(webhooks') = Len(webhooks)]_vars

\* two subscriptions are registered after a remove, one of them with a filter
\* of its own
AddIsUpsertWitness ==
  /\ Len(webhooks) = 2
  /\ ~sameArray
  /\ \E i \in 1..2 : webhooks[i].events = {"qr"}

\* the store after the message event of the scenario, and after its status
\* update
AfterM1 ==
  messages_upsert(Store, "notify",
                  [remoteJid |-> "C1", id |-> "M1", fromMe |-> FALSE, status |-> "sent"])

AfterM1Read == updateMessage(AfterM1, [remoteJid |-> "C1", id |-> "M1", status |-> "read"])

LogoutHaltsReconnect ==
  [][(reconnectAttempts = maxReconnectAttempts + 1 /\ reconnectTimers' < reconnectTimers)
       => (connectCalls' = connectCalls /\ connectionStatus' = connectionStatus)]_vars

\* C31: the writes of one logical event are persisted together or not at all:
\* no step that leaves the messages alone stores the chat row of a chat
\* without its chat-overview row, or the overview row without the chat row
MultiWriteAtomic ==
  [][messages' = messages =>
       \A c \in Chats :
         /\ (c \notin chats /\ c \in chats') => c \in DOMAIN chats_overview'
         /\ (c \notin DOMAIN chats_overview /\ c \in DOMAIN chats_overview')
              => c \in chats']_vars

\* C32: an event that rewrites a chat-overview row and leaves the messages
\* alone (chats.upsert with its own unread count) leaves the unread counter of
\* that chat equal to the number of persisted inbound messages of the chat
\* whose status is not "read"
UnreadNotFromEvent ==
  [][messages' = messages =>
       \A c \in DOMAIN chats_overview' :
         (c \notin DOMAIN chats_overview \/ chats_overview'[c] # chats_overview[c])
           => chats_overview'[c].unread_count = Cardinality(UnreadMessages(c))]_vars

SendReachesLiveClient ==
  (lastSend.method = "sendMessage" /\ lastSend.connected) =>
    /\ lastSend.result # "notConnected"
    /\ lastSend.result = "none" => lastSend.passedTo = lastSend.live

SingleFailureNotSurfaced ==
  \A o \in OpIds :
    /\ (ops[o].kind = "query" /\ ops[o].result = "thrown") => ops[o].attempt > 1
    /\ ops[o].pc = "sleeping" => ops[o].delay = 200 * ops[o].attempt * ops[o].attempt

\* C40: every connection that mysqlQuery or mysqlTransaction has checked out
\* is given back exactly once: a call has released as many connections as it
\* has acquired, less the one it holds; a call that is over holds none; and
\* the pool counts as checked out exactly the connections that calls hold
ReleasedExactlyOnce ==
  /\ \A o \in OpIds :
       /\ ops[o].released = ops[o].acquired - (IF ops[o].conn THEN 1 ELSE 0)
       /\ ops[o].pc = "done" => ~ops[o].conn
  /\ inUse = Cardinality({o \in OpIds : ops[o].conn})

\* a query whose three attempts all failed at execute and a transaction that
\* failed and whose rollback ran are over, and the pool is whole again
ReleasedExactlyOnceWitness ==
  /\ \E o \in OpIds :
       /\ ops[o].kind = "query" /\ ops[o].result = "thrown"
       /\ ops[o].acquired = 3 /\ ops[o].released = 3
  /\ \E o \in OpIds :
       /\ ops[o].kind = "transaction" /\ ops[o].result = "thrown"
       /\ ops[o].acquired = 1 /\ ops[o].released = 1
  /\ inUse = 0

\* C35: the supervisor's process keeps running whatever its listeners have
\* met: after any number of events whose writes failed it is alive, so that
\* later events are delivered to their listeners
SupervisorSurvivesListeners == processAlive

\* C38: when the stored list holds the object entry that a metadata upsert
\* wrote for member P, "remove P" leaves no entry of P in the list, and
\* "add P" leaves exactly the one entry of P that was there
UpsertedMemberComparable ==
  \A jid \in Jids :
    (\E k \in 1..Len(participants) :
        participants[k].kind = "object" /\ participants[k].id = jid)
      => /\ EntriesOf(applyParticipants(participants, "remove", {jid}), jid) = {}
         /\ Cardinality(EntriesOf(applyParticipants(participants, "add", {jid}), jid))
              = Cardinality(EntriesOf(participants, jid))

\* C39: every bulk job that was accepted is eventually completed, with its
\* completion timestamp, whatever its sends return or throw
BulkJobCompletes ==
  \A j \in 1..MaxJobs :
    (j \in DOMAIN jobs) ~>
      (j \in DOMAIN jobs /\ jobs[j].status = "completed" /\ jobs[j].completedAt)

\* a job of three recipients is completed with every one of its sends failed
BulkJobCompletesWitness ==
  \E j \in DOMAIN jobs :
    /\ jobs[j].status = "completed" /\ jobs[j].completedAt
    /\ jobs[j].total = 3 /\ jobs[j].failed = 3

====
